---- MODULE Spec2Model ----
(***************************************************************************)
(* Model of app.py of the UCES procurement tracker: the loader load_data   *)
(* (header normalisation, date handling, numeric coercion), the           *)
(* st.cache_data memoisation around it, and the dashboard pass that        *)
(* follows a load (KPIs, filters, monthly flow, aging buckets).            *)
(*                                                                         *)
(* Cell texts are sequences of one-character strings, so that             *)
(* str.replace, str.strip and float() are computed character by character. *)
(* A float is a record: k = "num" with value m * 10^x (m not divisible by  *)
(* 10, or m = 0 and x = 0), k = "inf" with sign m, or k = "nan".           *)
(***************************************************************************)
EXTENDS Integers, Sequences, FiniteSets, TLC

VARIABLES
  pc,             \* where the run stands
  cell,           \* the cell handed to to_float
  stored,         \* ret: what to_float returned; val: what the column stores
  uploaded_file,  \* the sheet: readable, headers, rows
  norm,           \* the normaliser's result: trimmed, renamed_cols, columns
  clock,          \* pd.Timestamp.now(), in ticks
  cache,          \* the st.cache_data entry of load_data
  calls,          \* what load_data returned at line 129, call by call
  out             \* the last run of the script: selections, results, end

vars == <<pc, cell, stored, uploaded_file, norm, clock, cache, calls, out>>

Range(f) == {f[i] : i \in DOMAIN f}

--------------------------------------------------------------------------
(* Text helpers: Python str methods on character sequences.                *)

\* str.replace(old, "") for a one-character old: every occurrence goes.
RECURSIVE RemoveChar(_, _)
RemoveChar(s, c) ==
  IF s = <<>> THEN <<>>
  ELSE IF Head(s) = c THEN RemoveChar(Tail(s), c)
  ELSE <<Head(s)>> \o RemoveChar(Tail(s), c)

\* str.replace(a b, ""): non-overlapping occurrences, scanned left to right.
RECURSIVE RemovePair(_, _, _)
RemovePair(s, a, b) ==
  IF Len(s) < 2 THEN s
  ELSE IF s[1] = a /\ s[2] = b THEN RemovePair(SubSeq(s, 3, Len(s)), a, b)
  ELSE <<Head(s)>> \o RemovePair(Tail(s), a, b)

\* str.replace(c, d) for one-character c and d.
ReplaceChar(s, c, d) == [i \in 1..Len(s) |-> IF s[i] = c THEN d ELSE s[i]]

RECURSIVE LStrip(_)
LStrip(s) == IF s # <<>> /\ Head(s) = " " THEN LStrip(Tail(s)) ELSE s

RECURSIVE RStrip(_)
RStrip(s) ==
  IF s # <<>> /\ s[Len(s)] = " " THEN RStrip(SubSeq(s, 1, Len(s) - 1)) ELSE s

\* str.strip()
Strip(s) == LStrip(RStrip(s))

--------------------------------------------------------------------------
(* Floats.                                                                 *)

DigitChars == {"0", "1", "2", "3", "4", "5", "6", "7", "8", "9"}

DigitVal(c) ==
  CASE c = "0" -> 0 [] c = "1" -> 1 [] c = "2" -> 2 [] c = "3" -> 3
    [] c = "4" -> 4 [] c = "5" -> 5 [] c = "6" -> 6 [] c = "7" -> 7
    [] c = "8" -> 8 [] c = "9" -> 9

AllDigits(s) == \A i \in 1..Len(s) : s[i] \in DigitChars

RECURSIVE DigitsToInt(_)
DigitsToInt(s) ==
  IF s = <<>> THEN 0
  ELSE 10 * DigitsToInt(SubSeq(s, 1, Len(s) - 1)) + DigitVal(s[Len(s)])

RECURSIVE NumDigits(_)
NumDigits(n) == IF n < 10 THEN 1 ELSE 1 + NumDigits(n \div 10)

RECURSIVE Pow10(_)
Pow10(n) == IF n <= 0 THEN 1 ELSE 10 * Pow10(n - 1)

Abs(n) == IF n < 0 THEN -n ELSE n

NaN == [k |-> "nan", m |-> 0, x |-> 0]
PosInf == [k |-> "inf", m |-> 1, x |-> 0]
NegInf == [k |-> "inf", m |-> -1, x |-> 0]
Zero == [k |-> "num", m |-> 0, x |-> 0]

\* The float m * 10^x in normal form.
RECURSIVE Num(_, _)
Num(m, x) ==
  IF m = 0 THEN Zero
  ELSE IF m % 10 = 0 THEN Num(m \div 10, x + 1)
  ELSE [k |-> "num", m |-> m, x |-> x]

\* Largest and smallest decimal magnitudes of an IEEE double: above about
\* 1.797e308 float() gives inf, below about 4.9e-324 it gives 0.0.
MaxExp10 == 309
MinExp10 == -323

\* The three leading digits of m (of at most nine digits).
Lead3(m) ==
  IF NumDigits(m) <= 3 THEN m * Pow10(3 - NumDigits(m))
  ELSE m \div Pow10(NumDigits(m) - 3)

\* float() of the decimal sgn * m * 10^x, with overflow to inf and underflow to 0.
Round(sgn, m, x) ==
  LET n == Num(m, x)
      mag == NumDigits(n.m) + n.x
  IN IF n.m = 0 THEN Zero
     ELSE IF mag > MaxExp10 \/ (mag = MaxExp10 /\ Lead3(n.m) >= 180)
       THEN [k |-> "inf", m |-> sgn, x |-> 0]
     ELSE IF mag < MinExp10 THEN Zero
     ELSE [k |-> "num", m |-> sgn * n.m, x |-> n.x]

ParseError == [k |-> "error", m |-> 0, x |-> 0]

\* Index of the first c in s, 0 if none.
FirstIndex(s, c) ==
  IF \E i \in 1..Len(s) : s[i] = c
  THEN CHOOSE i \in 1..Len(s) : s[i] = c /\ \A j \in 1..(i - 1) : s[j] # c
  ELSE 0

\* The exponent part after "e": an optional sign and at least one digit.
ExpOk(e) ==
  LET d == IF e # <<>> /\ Head(e) \in {"+", "-"} THEN Tail(e) ELSE e
  IN d # <<>> /\ AllDigits(d)

ExpVal(e) ==
  LET neg == e # <<>> /\ Head(e) = "-"
      d == IF e # <<>> /\ Head(e) \in {"+", "-"} THEN Tail(e) ELSE e
  IN IF neg THEN -DigitsToInt(d) ELSE DigitsToInt(d)

\* An unsigned decimal literal: digits, an optional point, an optional exponent.
ParseUnsigned(sgn, s) ==
  LET ei == FirstIndex(s, "e")
      mant == IF ei = 0 THEN s ELSE SubSeq(s, 1, ei - 1)
      ex == IF ei = 0 THEN <<>> ELSE SubSeq(s, ei + 1, Len(s))
      pi == FirstIndex(mant, ".")
      ip == IF pi = 0 THEN mant ELSE SubSeq(mant, 1, pi - 1)
      fp == IF pi = 0 THEN <<>> ELSE SubSeq(mant, pi + 1, Len(mant))
  IN IF /\ AllDigits(ip) /\ AllDigits(fp)
        /\ (ip # <<>> \/ fp # <<>>)
        /\ (ei = 0 \/ ExpOk(ex))
     THEN Round(sgn, DigitsToInt(ip \o fp),
                (IF ei = 0 THEN 0 ELSE ExpVal(ex)) - Len(fp))
     ELSE ParseError

\* Python's float(text) on a stripped text of the model's alphabet (digits,
\* lower-case letters, ".", "-", "+"); ParseError stands for ValueError.
ParseFloat(s) ==
  LET t == Strip(s)
      neg == t # <<>> /\ Head(t) = "-"
      signed == t # <<>> /\ Head(t) \in {"+", "-"}
      body == IF signed THEN Tail(t) ELSE t
      sgn == IF neg THEN -1 ELSE 1
  IN IF body \in {<<"i", "n", "f">>, <<"i", "n", "f", "i", "n", "i", "t", "y">>}
       THEN [k |-> "inf", m |-> sgn, x |-> 0]
     ELSE IF body = <<"n", "a", "n">> THEN NaN
     ELSE ParseUnsigned(sgn, body)

IsFinite(v) == v.k = "num"

Min(a, b) == IF a < b THEN a ELSE b

\* a + b on floats (decimal arithmetic; the model's sums are exact).
FAdd(a, b) ==
  IF a.k = "nan" \/ b.k = "nan" THEN NaN
  ELSE IF a.k = "inf" /\ b.k = "inf" THEN (IF a.m = b.m THEN a ELSE NaN)
  ELSE IF a.k = "inf" THEN a
  ELSE IF b.k = "inf" THEN b
  ELSE LET x == Min(a.x, b.x)
       IN Num(a.m * Pow10(a.x - x) + b.m * Pow10(b.x - x), x)

\* a < b on floats; False when either is nan.
FLess(a, b) ==
  IF a.k = "nan" \/ b.k = "nan" THEN FALSE
  ELSE IF a.k = "inf" THEN a.m < 0 /\ ~(b.k = "inf" /\ b.m < 0)
  ELSE IF b.k = "inf" THEN b.m > 0
  ELSE LET x == Min(a.x, b.x)
       IN a.m * Pow10(a.x - x) < b.m * Pow10(b.x - x)

--------------------------------------------------------------------------
(* Cells of the sheet as pandas hands them to to_float: a text, a native   *)
(* integer, or an empty cell (the float nan).                              *)

TextCell(s) == [t |-> "str", s |-> s, n |-> 0]
IntCell(n) == [t |-> "int", s |-> <<>>, n |-> n]
NullCell == [t |-> "null", s |-> <<>>, n |-> 0]

DigitChar(d) ==
  CASE d = 0 -> "0" [] d = 1 -> "1" [] d = 2 -> "2" [] d = 3 -> "3"
    [] d = 4 -> "4" [] d = 5 -> "5" [] d = 6 -> "6" [] d = 7 -> "7"
    [] d = 8 -> "8" [] d = 9 -> "9"

RECURSIVE NatToChars(_)
NatToChars(n) ==
  IF n < 10 THEN <<DigitChar(n)>>
  ELSE NatToChars(n \div 10) \o <<DigitChar(n % 10)>>

\* str(val)
Str(val) ==
  CASE val.t = "str" -> val.s
    [] val.t = "int" -> IF val.n < 0 THEN <<"-">> \o NatToChars(-val.n)
                        ELSE NatToChars(val.n)
    [] val.t = "null" -> <<"n", "a", "n">>

\* The text float() is given: the replace/strip chain of line 111.
CleanText(val) ==
  Strip(ReplaceChar(RemovePair(RemoveChar(Str(val), ","), "R", "M"), "-", "0"))

\* to_float: float() of the cleaned text, 0.0 on any exception.
to_float(val) ==
  LET r == ParseFloat(CleanText(val))
  IN IF r = ParseError THEN Zero ELSE r

\* The column without its fillna(0).
fillnaDropped(v) == v

\* Series.fillna(0)
fillna(v) == IF v.k = "nan" THEN Zero ELSE v

\* df[col].apply(to_float).fillna(0) on one cell
CoerceCell(val) == fillna(to_float(val))

--------------------------------------------------------------------------
(* Column normaliser, load_data lines 40-87.                               *)

\* A header as the sheet has it: a text without outer blanks, and the
\* number of blanks before and after it.
RawHeader(text, lead, trail) == [text |-> text, lead |-> lead, trail |-> trail]

\* str(c).strip()
StripHeader(h) == h.text

\* df.columns = [str(c).strip() for c in df.columns]
CleanColumns(headers) == [i \in 1..Len(headers) |-> StripHeader(headers[i])]

\* The Amount chain with its first two branches exchanged.
AmountSynSwapped == <<"Payment Amount", "Total_Paid", "Total Paid">>

\* The elif chains, in the order of the code.
AmountSyn == <<"Total_Paid", "Payment Amount", "Total Paid">>
POValueSyn == <<"Total_PO_Value", "Total PO Value", "Total PO Value ">>
PercentSyn == <<"Actual_Payment_%", "Payment %", "Actual_Payment_% ">>
DateSyn ==
  <<"PO_Date", "PO DATE", "PO_Date ", "Invoice Date", "Invoice Date ", "PR DATE">>
VendorSyn == <<"Vendor", "VENDOR">>
ManagerSyn == <<"Project Manager", "Project Manager ">>

Chains ==
  << [canon |-> "App_Amount", syns |-> AmountSyn],
     [canon |-> "App_PO_Value", syns |-> POValueSyn],
     [canon |-> "App_Percent", syns |-> PercentSyn],
     [canon |-> "App_Date", syns |-> DateSyn],
     [canon |-> "Vendor_Name", syns |-> VendorSyn],
     [canon |-> "Project_Manager", syns |-> ManagerSyn] >>

\* One if/elif chain: nothing when the canonical name is a column, else the
\* first synonym of the chain that is a column (a set of at most one name).
ChainPick(cols, canon, syns) ==
  IF canon \in Range(cols) THEN {}
  ELSE {syns[i] : i \in {j \in 1..Len(syns) :
                           /\ syns[j] \in Range(cols)
                           /\ \A k \in 1..(j - 1) : syns[k] \notin Range(cols)}}

\* renamed_cols, the dict old name -> standard name.
RenamedCols(cols) ==
  LET keys == UNION {ChainPick(cols, Chains[c].canon, Chains[c].syns) :
                       c \in 1..Len(Chains)}
  IN [old \in keys |->
        Chains[CHOOSE c \in 1..Len(Chains) :
                 old \in ChainPick(cols, Chains[c].canon, Chains[c].syns)].canon]

\* df.rename(columns=renamed_cols): every column bearing a key is renamed.
Rename(cols, renamed) ==
  [i \in 1..Len(cols) |->
     IF cols[i] \in DOMAIN renamed THEN renamed[cols[i]] ELSE cols[i]]

\* Lines 41-87: the trimmed names, the dict and the renamed columns.
NormalizeColumns(headers) ==
  LET cols == CleanColumns(headers)
  IN [trimmed |-> cols,
      renamed_cols |-> RenamedCols(cols),
      columns |-> IF DOMAIN RenamedCols(cols) # {}
                  THEN Rename(cols, RenamedCols(cols)) ELSE cols]

--------------------------------------------------------------------------
(* The sheet and load_data, lines 35-123.                                  *)

\* Clock ticks per day: pd.Timestamp.now() is finer than a day.
TicksPerDay == 2

Timestamp(t) == [k |-> "ts", m |-> t, x |-> 0]
NaT == [k |-> "nat", m |-> 0, x |-> 0]

\* A date cell: a native datetime (midnight of day n), or a text that
\* pandas parses to midnight of day n.
DateCell(day) == [t |-> "date", s |-> <<>>, n |-> day]
DateText(day) == [t |-> "datetext", s |-> <<>>, n |-> day]

\* What a column of the sheet holds, by the name it bears once trimmed.
KindOf(name) ==
  CASE name \in {"App_Amount", "Total_Paid", "Payment Amount", "Total Paid"}
         -> "amount"
    [] name \in {"App_PO_Value", "Total_PO_Value", "Total PO Value"} -> "po"
    [] name \in {"App_Percent", "Actual_Payment_%", "Payment %"} -> "pct"
    [] name \in {"App_Date", "PO_Date", "PO DATE", "Invoice Date", "PR DATE"}
         -> "date"
    [] name \in {"Vendor_Name", "Vendor", "VENDOR"} -> "vendor"
    [] name \in {"Project_Manager", "Project Manager"} -> "pm"
    [] OTHER -> "pono"

\* pd.read_excel: the frame's rows, one cell per header.
ReadExcel(file) ==
  [columns |-> file.headers,
   rows |-> [r \in 1..Len(file.rows) |->
               [i \in 1..Len(file.headers) |->
                  file.rows[r][KindOf(StripHeader(file.headers[i]))]]]]

Count(cols, name) == Cardinality({i \in 1..Len(cols) : cols[i] = name})

\* The position of the column named name (the first, if several).
ColIndex(cols, name) ==
  CHOOSE i \in 1..Len(cols) :
    cols[i] = name /\ \A j \in 1..(i - 1) : cols[j] # name

\* pd.api.types.is_datetime64_any_dtype: a column of native datetimes, blanks
\* allowed.
IsDatetimeDtype(rows, c) ==
  /\ \A r \in 1..Len(rows) : rows[r][c].t \in {"date", "null"}
  /\ \E r \in 1..Len(rows) : rows[r][c].t = "date"

\* A conversion that puts the current time where the text is no date.
ToDatetimeNow(val) ==
  IF val.t \in {"date", "datetext"} THEN Timestamp(val.n * TicksPerDay)
  ELSE Timestamp(clock)

\* One value of pd.to_datetime(errors='coerce'), and of a datetime column read
\* as it is: NaT for a blank and for a text that is no date.
ToDatetime(val) ==
  IF val.t \in {"date", "datetext"} THEN Timestamp(val.n * TicksPerDay)
  ELSE NaT

\* Step 5 on a frame with at most one App_Date column.
HandleDate(cols, rows, now) ==
  IF "App_Date" \in Range(cols)
  THEN LET c == ColIndex(cols, "App_Date")
       IN [columns |-> cols,
           rows |-> [r \in 1..Len(rows) |->
                       [rows[r] EXCEPT ![c] =
                          IF IsDatetimeDtype(rows, c)
                          THEN (IF rows[r][c].t = "date"
                                THEN Timestamp(rows[r][c].n * TicksPerDay)
                                ELSE NaT)
                          ELSE ToDatetime(rows[r][c])]]]
  ELSE [columns |-> Append(cols, "App_Date"),
        rows |-> [r \in 1..Len(rows) |-> Append(rows[r], Timestamp(now))]]

numeric_cols == {"App_Amount", "App_PO_Value", "App_Percent"}

\* Step 6: df[col] = df[col].apply(to_float).fillna(0) for the numeric
\* columns the frame has.
HandleNumeric(cols, rows) ==
  [r \in 1..Len(rows) |->
     [i \in 1..Len(cols) |->
        IF cols[i] \in numeric_cols THEN CoerceCell(rows[r][i])
        ELSE rows[r][i]]]

\* The two returns of pd.DataFrame(): error is "missing" for lines 90-93
\* and "exception" for lines 118-123; shown is the column list written
\* under the message (none when df was never bound).
Failure(error, listed, shown) ==
  [ok |-> FALSE, error |-> error, listed |-> listed, shown |-> shown,
   columns |-> <<>>, rows |-> <<>>]

\* A loader that never misses App_Amount.
AmountMissingNever(cols) == FALSE

\* Line 90.
AmountMissing(cols) == "App_Amount" \notin Range(cols)

\* load_data without its cache. pd.to_datetime raises ValueError on the
\* two-column frame df['App_Date'] is when two headers collide on App_Date,
\* and the except clause turns that into the failure outcome.
LoadData(file, now) ==
  IF ~file.readable THEN Failure("exception", FALSE, <<>>)
  ELSE
    LET raw == ReadExcel(file)
        cols == NormalizeColumns(raw.columns).columns
    IN IF AmountMissing(cols) THEN Failure("missing", TRUE, cols)
       ELSE IF Count(cols, "App_Date") > 1
         THEN Failure("exception", TRUE, cols)
       ELSE LET dated == HandleDate(cols, raw.rows, now)
            IN [ok |-> TRUE, error |-> "none", listed |-> FALSE,
                shown |-> <<>>,
                columns |-> dated.columns,
                rows |-> HandleNumeric(dated.columns, dated.rows)]

\* st.cache_data: the stored return value for the same argument, else a run
\* of the function, stored.
NoFile == [readable |-> FALSE, headers |-> <<>>, rows |-> <<>>]

NoEntry == [full |-> FALSE, key |-> NoFile, val |-> Failure("none", FALSE, <<>>)]

CacheHit(c, file) == c.full /\ c.key = file

CachedLoad(c, file, now) ==
  IF CacheHit(c, file) THEN c.val ELSE LoadData(file, now)

CacheAfter(c, file, now) ==
  [full |-> TRUE, key |-> file, val |-> CachedLoad(c, file, now)]

--------------------------------------------------------------------------
(* The dashboard pass, lines 126-338: what the script computes from the    *)
(* frame and the sidebar's selections, up to the line where it ends.       *)

UpperCase == <<"A", "B", "C", "D", "E", "F", "G", "H", "I", "J", "K", "L", "M",
               "N", "O", "P", "Q", "R", "S", "T", "U", "V", "W", "X", "Y", "Z">>
LowerCase == <<"a", "b", "c", "d", "e", "f", "g", "h", "i", "j", "k", "l", "m",
               "n", "o", "p", "q", "r", "s", "t", "u", "v", "w", "x", "y", "z">>

LowerChar(c) ==
  IF c \in Range(UpperCase) THEN LowerCase[FirstIndex(UpperCase, c)] ELSE c

Lower(s) == [i \in 1..Len(s) |-> LowerChar(s[i])]

\* Whether pat occurs in s.
Contains(s, pat) ==
  \E i \in 0..(Len(s) - Len(pat)) : SubSeq(s, i + 1, i + Len(pat)) = pat

\* Series.str.contains(pat, case=False, na=False) on one value, for a pattern
\* of letters.
StrContains(val, pat) ==
  IF val.t = "null" THEN FALSE ELSE Contains(Lower(Str(val)), Lower(pat))

\* A missing value, as count, nunique, dropna and == see it.
IsNull(v) ==
  \/ "t" \in DOMAIN v /\ v.t = "null"
  \/ "k" \in DOMAIN v /\ v.k \in {"nat", "nan"}

\* 99.9, the threshold of lines 161, 197, 199 and 309.
PendingBelow == [k |-> "num", m |-> 999, x |-> -1]

Cell(df, r, name) == df.rows[r][ColIndex(df.columns, name)]

\* df[name].sum() over the rows numbered by q.
RECURSIVE SumOf(_, _, _)
SumOf(df, q, name) ==
  IF q = <<>> THEN Zero
  ELSE FAdd(SumOf(df, SubSeq(q, 1, Len(q) - 1), name), Cell(df, q[Len(q)], name))

AllRows(df) == [r \in 1..Len(df.rows) |-> r]

\* df.empty: no rows or no columns.
IsEmpty(df) == Len(df.rows) = 0 \/ Len(df.columns) = 0

All == <<"A", "l", "l">>

\* Lines 159 and 174.
vendor_col(df) ==
  IF "Vendor_Name" \in Range(df.columns) THEN "Vendor_Name" ELSE "Vendor"

pm_col(df) ==
  IF "Project_Manager" \in Range(df.columns) THEN "Project_Manager"
  ELSE "Project Manager"

\* pm_list, line 176 (as a set: the order of the options is not modelled).
PmList(df) ==
  {All} \cup {Str(Cell(df, r, pm_col(df))) :
                r \in {i \in 1..Len(df.rows) : ~IsNull(Cell(df, i, pm_col(df)))}}

\* Lines 187-199.
DfView(df, selected_pm, vendor_search, status_filter) ==
  LET byPm(r) == ~IsNull(Cell(df, r, pm_col(df)))
                   /\ Str(Cell(df, r, pm_col(df))) = selected_pm
      byVendor(r) == StrContains(Cell(df, r, vendor_col(df)), vendor_search)
      paid(r) == ~FLess(Cell(df, r, "App_Percent"), PendingBelow)
      pending(r) == FLess(Cell(df, r, "App_Percent"), PendingBelow)
      v1 == IF selected_pm # All /\ pm_col(df) \in Range(df.columns)
            THEN SelectSeq(AllRows(df), byPm) ELSE AllRows(df)
      v2 == IF vendor_search # <<>> /\ vendor_col(df) \in Range(df.columns)
            THEN SelectSeq(v1, byVendor) ELSE v1
  IN IF status_filter = "Fully Paid (100%)" THEN SelectSeq(v2, paid)
     ELSE IF status_filter = "Partial / Pending" THEN SelectSeq(v2, pending)
     ELSE v2

\* Age_Days of one row, line 313: NaN for a NaT date.
AgeDays(today, date) ==
  IF date.k = "nat" THEN NaN
  ELSE [k |-> "num", m |-> (today - date.m) \div TicksPerDay, x |-> 0]

\* days <= n on a value of Age_Days; False for NaN.
AtMost(days, n) == days.k = "num" /\ days.m <= n

get_age_bucket(days) ==
  IF AtMost(days, 30) THEN "0-30 Days"
  ELSE IF AtMost(days, 60) THEN "31-60 Days"
  ELSE IF AtMost(days, 90) THEN "61-90 Days"
  ELSE "90+ Days"

\* Line 326.
CountCol(df) == IF "PO No" \in Range(df.columns) THEN "PO No" ELSE df.columns[1]

\* Lines 309-331: the pending rows, their ages and buckets, and the table
\* grouped by bucket (Count counts the non-null values of count_col).
Aging(df, view, today) ==
  LET pending(r) == FLess(Cell(df, r, "App_Percent"), PendingBelow)
      pend == SelectSeq(view, pending)
      age == [i \in 1..Len(pend) |-> AgeDays(today, Cell(df, pend[i], "App_Date"))]
      bucket == [i \in 1..Len(pend) |-> get_age_bucket(age[i])]
      inBucket(b) == {i \in 1..Len(pend) : bucket[i] = b}
      rowsOf(b) == LET keep(r) == \E i \in inBucket(b) : pend[i] = r
                   IN SelectSeq(pend, keep)
  IN [pending_df |-> pend, Age_Days |-> age, Age_Bucket |-> bucket,
      aging_data |->
        [b \in Range(bucket) |->
           [Count |-> Cardinality({i \in inBucket(b) :
                         ~IsNull(Cell(df, pend[i], CountCol(df)))}),
            Total_Value |-> SumOf(df, rowsOf(b), "App_PO_Value")]]]

NoAging == [pending_df |-> <<>>, Age_Days |-> <<>>, Age_Bucket |-> <<>>,
            aging_data |-> <<>>]

\* One run of the script from line 126 on. ended is the line where the run
\* stops: 144 (st.stop, no data), 157 or 161 (KeyError: the frame has no
\* App_PO_Value, no App_Percent), 335 (TypeError: st.plotly_chart is given
\* use_container_width twice, after the aging table is computed).
RunOf(df, selected_pm, vendor_search, status_filter, today) ==
  LET blank == [ended |-> 144, df |-> df, today |-> today,
                selected_pm |-> selected_pm,
                vendor_search |-> vendor_search,
                status_filter |-> status_filter,
                total_spend |-> Zero, total_po_value |-> Zero,
                pending_pos |-> 0, df_view |-> <<>>, aging |-> NoAging]
      pending(r) == FLess(Cell(df, r, "App_Percent"), PendingBelow)
      view == DfView(df, selected_pm, vendor_search, status_filter)
  IN IF IsEmpty(df) THEN blank
     ELSE IF "App_PO_Value" \notin Range(df.columns)
       THEN [blank EXCEPT !.ended = 157,
                          !.total_spend = SumOf(df, AllRows(df), "App_Amount")]
     ELSE IF "App_Percent" \notin Range(df.columns)
       THEN [blank EXCEPT !.ended = 161,
                          !.total_spend = SumOf(df, AllRows(df), "App_Amount"),
                          !.total_po_value =
                             SumOf(df, AllRows(df), "App_PO_Value")]
     ELSE [blank EXCEPT !.ended = 335,
                        !.total_spend = SumOf(df, AllRows(df), "App_Amount"),
                        !.total_po_value = SumOf(df, AllRows(df), "App_PO_Value"),
                        !.pending_pos = Len(SelectSeq(AllRows(df), pending)),
                        !.df_view = view,
                        !.aging = Aging(df, view, today)]

--------------------------------------------------------------------------
(* Numeric coercion of one cell.                                           *)

MaxLen == 3
MaxInt == 5

Alphabet == {"1", "5", ",", "-", ".", "R", "M", " ", "e"}

Samples ==
  { <<"1", ",", "2", "3", "4", ".", "5", "0">>,
    <<"R", "M", " ", "5", "0", "0">>,
    <<"g", "a", "r", "b", "a", "g", "e">>,
    <<"n", "a", "n">>, <<"i", "n", "f">>, <<"-", "i", "n", "f">>,
    <<"1", "e", "9", "9", "9">>, <<"1", "e", "-", "9", "9", "9">>,
    <<"-", "1", ",", "0", "0", "0", ".", "2", "5">> }

Texts == UNION {[1..n -> Alphabet] : n \in 0..MaxLen}

Cells ==
  {TextCell(s) : s \in Texts \cup Samples}
    \cup {IntCell(n) : n \in (-MaxInt)..MaxInt} \cup {NullCell}

NotYet == [ret |-> ParseError, val |-> ParseError]

NoRun == RunOf(Failure("none", FALSE, <<>>), All, <<>>, "All", 0)

NoNorm == [trimmed |-> <<>>, renamed_cols |-> <<>>, columns |-> <<>>]

\* The first reading of the clock: midnight of day 100.
T0 == 100 * TicksPerDay

InitCoerce ==
  /\ pc = "cell"
  /\ cell \in Cells
  /\ stored = NotYet
  /\ uploaded_file = NoFile
  /\ norm = NoNorm
  /\ clock = T0
  /\ cache = NoEntry
  /\ calls = <<>>
  /\ out = NoRun

\* df[col] = df[col].apply(to_float).fillna(0), one cell of the column
Coerce ==
  /\ pc = "cell"
  /\ stored' = [ret |-> to_float(cell), val |-> CoerceCell(cell)]
  /\ pc' = "coerced"
  /\ UNCHANGED <<cell, uploaded_file, norm, clock, cache, calls, out>>

NextCoerce == Coerce

SpecCoerce == InitCoerce /\ [][NextCoerce]_vars

--------------------------------------------------------------------------
(* The column normaliser on bounded header lists.                          *)

MaxHeaders == 3

HeaderNames ==
  << "App_Amount", "Total_Paid", "Payment Amount", "Total Paid",
     "App_PO_Value", "Total_PO_Value", "Total PO Value",
     "App_Percent", "Actual_Payment_%", "Payment %",
     "App_Date", "PO_Date", "PO DATE", "Invoice Date", "PR DATE",
     "Vendor_Name", "Vendor", "VENDOR",
     "Project_Manager", "Project Manager", "PO No" >>

\* Names the universe also holds with one trailing blank.
PaddedNames ==
  << "App_Amount", "Total_Paid", "Total PO Value", "Actual_Payment_%",
     "PO_Date", "Invoice Date", "Vendor", "Project Manager" >>

\* The raw headers of the universe, in a fixed order.
NormUniverse ==
  [i \in 1..Len(HeaderNames) |-> RawHeader(HeaderNames[i], 0, 0)]
    \o [i \in 1..Len(PaddedNames) |-> RawHeader(PaddedNames[i], 0, 1)]

\* The headers numbered by S, a set of indexes of universe U, in U's order.
RECURSIVE Ascending(_, _)
Ascending(U, S) ==
  IF S = {} THEN <<>>
  ELSE LET lo == CHOOSE a \in S : \A b \in S : a <= b
       IN <<U[lo]>> \o Ascending(U, S \ {lo})

Reverse(q) == [i \in 1..Len(q) |-> q[Len(q) + 1 - i]]

RECURSIVE SubsetsUpTo(_, _)
SubsetsUpTo(U, k) ==
  IF k = 0 THEN {{}}
  ELSE LET prev == SubsetsUpTo(U, k - 1)
       IN prev \cup {S \cup {a} : S \in prev, a \in U}

\* pandas.read_excel gives distinct raw headers; they may collide once trimmed.
HeaderLists ==
  LET small == SubsetsUpTo(DOMAIN NormUniverse, MaxHeaders)
  IN {Ascending(NormUniverse, S) : S \in small}
       \cup {Reverse(Ascending(NormUniverse, S)) : S \in small}

InitNorm ==
  /\ pc = "headers"
  /\ uploaded_file \in {[readable |-> TRUE, headers |-> h, rows |-> <<>>] :
                          h \in HeaderLists}
  /\ norm = NoNorm
  /\ cell = NullCell
  /\ stored = NotYet
  /\ clock = T0
  /\ cache = NoEntry
  /\ calls = <<>>
  /\ out = NoRun

\* Lines 41-87 of load_data on the sheet's headers.
Normalize ==
  /\ pc = "headers"
  /\ norm' = NormalizeColumns(uploaded_file.headers)
  /\ pc' = "normalized"
  /\ UNCHANGED <<cell, stored, uploaded_file, clock, cache, calls, out>>

NextNorm == Normalize

SpecNorm == InitNorm /\ [][NextNorm]_vars

--------------------------------------------------------------------------
(* load_data behind its cache, called at different times.                  *)

MaxRows == 2
MaxCalls == 2
MaxTicks == 1

Acme == <<"A", "c", "m", "e">>
AcmeB == <<"a", "c", "m", "e", " ", "b">>
Beta == <<"B", "e", "t", "a">>
Ali == <<"A", "l", "i">>
Bala == <<"B", "a", "l", "a">>

\* Rows of the loader's sheets, by kind of column. Dates are days; day 100
\* is T0.
LoadRowPool ==
  { [amount |-> TextCell(<<"R", "M", " ", "5", "0">>), po |-> TextCell(<<"-">>),
     pct |-> IntCell(100), date |-> DateCell(70),
     vendor |-> TextCell(Acme), pm |-> TextCell(Ali),
     pono |-> TextCell(<<"P", "1">>)],
    [amount |-> NullCell, po |-> TextCell(<<"2", "0", "0">>),
     pct |-> NullCell, date |-> TextCell(<<"t", "b", "a">>),
     vendor |-> NullCell, pm |-> TextCell(Ali),
     pono |-> TextCell(<<"P", "3">>)],
    [amount |-> TextCell(<<"1", ",", "0", "0", "0">>),
     po |-> TextCell(<<"i", "n", "f">>),
     pct |-> TextCell(<<"9", "9", ".", "9">>), date |-> NullCell,
     vendor |-> TextCell(Beta), pm |-> NullCell,
     pono |-> TextCell(<<"P", "4">>)],
    [amount |-> TextCell(<<"i", "n", "f">>), po |-> IntCell(-300),
     pct |-> TextCell(<<"g", "a", "r", "b", "a", "g", "e">>),
     date |-> DateText(69),
     vendor |-> TextCell(Beta), pm |-> TextCell(Bala), pono |-> NullCell] }

\* Rows of the dashboard's sheets.
RowPool ==
  { [amount |-> TextCell(<<"1", "0", "0">>), po |-> TextCell(<<"1", "5", "0">>),
     pct |-> IntCell(100), date |-> DateCell(70),
     vendor |-> TextCell(Acme), pm |-> TextCell(Ali),
     pono |-> TextCell(<<"P", "1">>)],
    [amount |-> TextCell(<<"R", "M", " ", "5", "0">>),
     po |-> TextCell(<<"1", "0", "0">>),
     pct |-> TextCell(<<"5", "0">>), date |-> DateText(69),
     vendor |-> TextCell(AcmeB), pm |-> TextCell(Bala), pono |-> NullCell],
    [amount |-> NullCell, po |-> TextCell(<<"2", "0", "0">>),
     pct |-> NullCell, date |-> TextCell(<<"t", "b", "a">>),
     vendor |-> NullCell, pm |-> TextCell(Ali),
     pono |-> TextCell(<<"P", "3">>)],
    [amount |-> TextCell(<<"1", ",", "0", "0", "0">>),
     po |-> TextCell(<<"1", ",", "0", "0", "0">>),
     pct |-> TextCell(<<"9", "9", ".", "9">>), date |-> DateCell(40),
     vendor |-> TextCell(Beta), pm |-> NullCell,
     pono |-> TextCell(<<"P", "4">>)],
    [amount |-> IntCell(250), po |-> IntCell(300),
     pct |-> TextCell(<<"9", "9", ".", "8", "9">>), date |-> DateCell(9),
     vendor |-> TextCell(Beta), pm |-> TextCell(Bala),
     pono |-> TextCell(<<"P", "5">>)],
    [amount |-> IntCell(20), po |-> IntCell(80),
     pct |-> IntCell(25), date |-> DateText(25),
     vendor |-> TextCell(Acme), pm |-> TextCell(Bala),
     pono |-> TextCell(<<"P", "6">>)] }

RowLists(pool) == UNION {[1..n -> pool] : n \in 0..MaxRows}

\* Headers of the loader's sheets; the last collides with PO_Date once trimmed.
LoadUniverse ==
  << RawHeader("Payment Amount", 0, 0), RawHeader("Total_PO_Value", 0, 0),
     RawHeader("Payment %", 0, 1), RawHeader("Vendor", 0, 0),
     RawHeader("PO_Date", 0, 0), RawHeader("PO_Date", 0, 1) >>

Files(U, pool) ==
  {[readable |-> TRUE, headers |-> Ascending(U, S), rows |-> rows] :
     S \in SUBSET DOMAIN U, rows \in RowLists(pool)}
    \cup {[readable |-> FALSE, headers |-> <<>>, rows |-> <<>>]}

InitLoad ==
  /\ pc = "uploaded"
  /\ uploaded_file \in Files(LoadUniverse, LoadRowPool)
  /\ clock = T0
  /\ cache = NoEntry
  /\ calls = <<>>
  /\ out = NoRun
  /\ norm = NoNorm
  /\ cell = NullCell
  /\ stored = NotYet

\* df = load_data(uploaded_file), line 129
CallLoad ==
  /\ pc = "uploaded"
  /\ Len(calls) < MaxCalls
  /\ calls' = Append(calls, [at |-> clock,
                             hit |-> CacheHit(cache, uploaded_file),
                             df |-> CachedLoad(cache, uploaded_file, clock)])
  /\ cache' = CacheAfter(cache, uploaded_file, clock)
  /\ UNCHANGED <<pc, cell, stored, uploaded_file, norm, clock, out>>

\* Time passes.
Tick ==
  /\ clock < T0 + MaxTicks
  /\ clock' = clock + 1
  /\ UNCHANGED <<pc, cell, stored, uploaded_file, norm, cache, calls, out>>

\* The cache is cleared (st.cache_data.clear, "Clear cache", a restart).
ClearCache ==
  /\ cache.full
  /\ cache' = NoEntry
  /\ UNCHANGED <<pc, cell, stored, uploaded_file, norm, clock, calls, out>>

NextLoad == CallLoad \/ Tick \/ ClearCache

SpecLoad == InitLoad /\ [][NextLoad]_vars

--------------------------------------------------------------------------
(* The script run on an uploaded sheet, again at every change of a widget. *)

\* Headers of the dashboard's sheets.
DashUniverse ==
  << RawHeader("PO No", 0, 0), RawHeader("Vendor", 0, 0),
     RawHeader("Project Manager", 0, 1), RawHeader("Total_PO_Value", 0, 0),
     RawHeader("Total_Paid", 0, 0), RawHeader("Payment %", 0, 0),
     RawHeader("PO_Date", 0, 0) >>

Searches == {<<>>, <<"a", "c">>}

Statuses == {"All", "Fully Paid (100%)", "Partial / Pending"}

Init ==
  /\ pc = "uploaded"
  /\ uploaded_file \in Files(DashUniverse, RowPool)
  /\ clock = T0
  /\ cache = NoEntry
  /\ calls = <<>>
  /\ out = NoRun
  /\ norm = NoNorm
  /\ cell = NullCell
  /\ stored = NotYet

\* Lines 175-179: the options of the selectbox, 'All' alone without it.
PmOptions(df) ==
  IF pm_col(df) \in Range(df.columns) THEN PmList(df) ELSE {All}

\* The selections the sidebar offers for frame df: none before the widgets
\* are reached.
Offered(df, selected_pm, vendor_search, status_filter) ==
  IF RunOf(df, All, <<>>, "All", 0).ended < 174
  THEN selected_pm = All /\ vendor_search = <<>> /\ status_filter = "All"
  ELSE /\ selected_pm \in PmOptions(df)
       /\ vendor_search \in (IF vendor_col(df) \in Range(df.columns)
                             THEN Searches ELSE {<<>>})
       /\ status_filter \in Statuses

\* One run of the script, top to bottom, with the widgets as they stand.
RunScript ==
  /\ pc = "uploaded"
  /\ LET df == CachedLoad(cache, uploaded_file, clock)
     IN \E selected_pm \in PmOptions(df), vendor_search \in Searches,
           status_filter \in Statuses :
          /\ Offered(df, selected_pm, vendor_search, status_filter)
          /\ out' = RunOf(df, selected_pm, vendor_search, status_filter, clock)
  /\ cache' = CacheAfter(cache, uploaded_file, clock)
  /\ UNCHANGED <<pc, cell, stored, uploaded_file, norm, clock, calls>>

Next == RunScript \/ Tick

Spec == Init /\ [][Next]_vars

--------------------------------------------------------------------------
(* Properties.                                                             *)

\* The synonym table of the specification (section 3), under the names the
\* code gives the canonical fields.
DocTable ==
  << [field |-> "App_Amount",
      order |-> <<"Total_Paid", "Payment Amount", "Total Paid">>],
     [field |-> "App_PO_Value",
      order |-> <<"Total_PO_Value", "Total PO Value", "Total PO Value ">>],
     [field |-> "App_Percent",
      order |-> <<"Actual_Payment_%", "Payment %", "Actual_Payment_% ">>],
     [field |-> "App_Date",
      order |-> <<"PO_Date", "PO DATE", "PO_Date ", "Invoice Date",
                  "Invoice Date ", "PR DATE">>],
     [field |-> "Vendor_Name", order |-> <<"Vendor", "VENDOR">>],
     [field |-> "Project_Manager",
      order |-> <<"Project Manager", "Project Manager ">>] >>

\* The earliest synonym of entry f among names, as a set of at most one name.
Earliest(f, names) ==
  {f.order[j] : j \in {k \in 1..Len(f.order) :
                         /\ f.order[k] \in names
                         /\ \A l \in 1..(k - 1) : f.order[l] \notin names}}

Distinct(q) == \A i, j \in 1..Len(q) : q[i] = q[j] => i = j

\* The columns that normalisation renamed to field.
RenamedTo(field) ==
  {i \in 1..Len(norm.columns) :
     norm.columns[i] = field /\ norm.trimmed[i] # field}

AmountNames == {"App_Amount", "Total_Paid", "Payment Amount", "Total Paid"}

\* No header of the sheet is App_Amount or one of its synonyms once trimmed.
NoAmount(file) ==
  \A i \in 1..Len(file.headers) : file.headers[i].text \notin AmountNames

\* The name whose columns are App_Date after normalisation, if any.
DateName(file) ==
  LET names == {file.headers[i].text : i \in 1..Len(file.headers)}
  IN IF "App_Date" \in names THEN {"App_Date"} ELSE Earliest(DocTable[4], names)

\* Two headers of the sheet collide, once trimmed, on the name of App_Date.
DateCollision(file) ==
  \E i, j \in 1..Len(file.headers) :
    /\ i # j
    /\ file.headers[i].text = file.headers[j].text
    /\ file.headers[i].text \in DateName(file)

\* The load-failure outcome for a missing Amount: the error names the column,
\* the columns found are listed, the dataset returned is empty.
MissingOutcome(file, df) ==
  /\ ~df.ok /\ df.error = "missing" /\ df.listed
  /\ Len(df.shown) = Len(file.headers)
  /\ df.columns = <<>> /\ df.rows = <<>>

HasDate(file) == DateName(file) # {}

\* The sheet's date cell of row r parses.
Parses(file, r) == file.rows[r].date.t \in {"date", "datetext"}

\* C3 as stated: after a successful load Amount is present, numeric and
\* non-null in every row, and Date is present in every row, the current
\* timestamp both when the sheet has no Date column and when the row's date
\* is unparseable.
C3_DateDefaultedToNow ==
  \A i \in 1..Len(calls) :
    LET df == calls[i].df
    IN (df.ok /\ ~calls[i].hit) =>
         /\ "App_Amount" \in Range(df.columns)
         /\ "App_Date" \in Range(df.columns)
         /\ \A r \in 1..Len(df.rows) :
              /\ Cell(df, r, "App_Amount").k \in {"num", "inf"}
              /\ Cell(df, r, "App_Date").k = "ts"
              /\ (~HasDate(uploaded_file) \/ ~Parses(uploaded_file, r)) =>
                   Cell(df, r, "App_Date") = Timestamp(calls[i].at)

\* C3 amended: after a successful load Amount is present, numeric and non-null
\* in every row, and Date is present in every row: the timestamp of the load
\* when the sheet has no Date column, else the row's date when it parses and
\* the null date (NaT) when it does not.
C3_AmountAndDate ==
  \A i \in 1..Len(calls) :
    LET df == calls[i].df
    IN df.ok =>
         /\ "App_Amount" \in Range(df.columns)
         /\ "App_Date" \in Range(df.columns)
         /\ Len(df.rows) = Len(uploaded_file.rows)
         /\ \A r \in 1..Len(df.rows) :
              /\ Cell(df, r, "App_Amount").k \in {"num", "inf"}
              /\ IF HasDate(uploaded_file)
                 THEN Cell(df, r, "App_Date") =
                        (IF Parses(uploaded_file, r)
                         THEN Timestamp(uploaded_file.rows[r].date.n * TicksPerDay)
                         ELSE NaT)
                 ELSE /\ Cell(df, r, "App_Date").k = "ts"
                      /\ Cell(df, r, "App_Date").m <= calls[i].at
                      /\ ~calls[i].hit =>
                           Cell(df, r, "App_Date") = Timestamp(calls[i].at)

\* C3's case: a load succeeded on a sheet with a Date column, one row's date
\* is unparseable and came out as NaT, and an empty Amount cell came out as 0.
C3_Witness ==
  \E i \in 1..Len(calls) :
    LET df == calls[i].df
    IN /\ df.ok /\ HasDate(uploaded_file)
       /\ \E r \in 1..Len(df.rows) :
            /\ ~Parses(uploaded_file, r)
            /\ Cell(df, r, "App_Date") = NaT
       /\ \E r \in 1..Len(df.rows) :
            /\ uploaded_file.rows[r].amount = NullCell
            /\ Cell(df, r, "App_Amount") = Zero

\* C8 as stated: two runs of load_data on the same sheet, at any two times,
\* return equal datasets, also when the sheet has no Date column.
C8_Deterministic ==
  \A i, j \in 1..Len(calls) : calls[i].df = calls[j].df

\* C8 amended: two runs of load_data on the same sheet end alike and return
\* datasets with the same columns and the same values in every row, except
\* that for a sheet with no Date column or synonym the Date column holds the
\* time of the run that computed it (so the datasets are equal when the sheet
\* has a Date column, and equal outside Date when it has none).
C8_EqualButSyntheticDate ==
  \A i, j \in 1..Len(calls) :
    LET a == calls[i].df
        b == calls[j].df
    IN /\ a.ok = b.ok /\ a.error = b.error /\ a.shown = b.shown
       /\ a.columns = b.columns
       /\ Len(a.rows) = Len(b.rows)
       /\ \A r \in 1..Len(a.rows) : \A c \in 1..Len(a.columns) :
            (a.columns[c] # "App_Date" \/ HasDate(uploaded_file)) =>
              a.rows[r][c] = b.rows[r][c]
       /\ (a.ok /\ ~HasDate(uploaded_file) /\ ~calls[i].hit) =>
            \A r \in 1..Len(a.rows) :
              Cell(a, r, "App_Date") = Timestamp(calls[i].at)

\* C8's case: load_data ran twice on a sheet with rows, at two different
\* times, the second run computed afresh, on a sheet without a Date column
\* and on one with an unparseable date.
C8_Witness ==
  /\ Len(calls) = 2
  /\ calls[1].at < calls[2].at /\ ~calls[2].hit
  /\ calls[2].df.ok /\ Len(calls[2].df.rows) = 2
  /\ \/ ~HasDate(uploaded_file)
     \/ ~Parses(uploaded_file, 1)

\* The documented coercion (section 4.2): remove ",", remove the token RM,
\* a cell that is exactly "-" is 0, trim, parse as a decimal number, 0.0
\* when that fails.
coerceNumber(val) ==
  LET s2 == RemovePair(RemoveChar(Str(val), ","), "R", "M")
      r == ParseFloat(Strip(s2))
  IN IF s2 = <<"-">> THEN Zero
     ELSE IF r = ParseError THEN Zero
     ELSE r

\* C4 as stated: whatever the cell, the value the column stores after the
\* coercion is a finite number.
C4_StoredFinite ==
  pc = "coerced" => IsFinite(stored.val)

\* C5 as stated: whatever the cell, to_float returns what the documented
\* coercion returns.
C5_MatchesReference ==
  pc = "coerced" => stored.ret = coerceNumber(cell)

\* C6 as stated: the totals the run reports are the sums of Amount and of
\* POValue over the rows of the filtered view.
C6_TotalsOfView ==
  out.ended > 199 =>
    /\ out.total_spend = SumOf(out.df, out.df_view, "App_Amount")
    /\ out.total_po_value = SumOf(out.df, out.df_view, "App_PO_Value")

Buckets == {"0-30 Days", "31-60 Days", "61-90 Days", "90+ Days"}

RECURSIVE SumCounts(_, _)
SumCounts(data, bs) ==
  IF bs = {} THEN 0
  ELSE LET b == CHOOSE one \in bs : TRUE
       IN data[b].Count + SumCounts(data, bs \ {b})

\* C7 as stated: every pending row of the view is in one of the four
\* buckets, and the Counts of the aging table add up to the reported number
\* of pending rows.
C7_CountsSumToPending ==
  out.ended > 331 =>
    /\ \A i \in 1..Len(out.aging.pending_df) : out.aging.Age_Bucket[i] \in Buckets
    /\ SumCounts(out.aging.aging_data, DOMAIN out.aging.aging_data)
         = out.pending_pos

\* C9 as stated: a pending row with the null date has age 0 and is in
\* "0-30 Days"; one with a date is bucketed by the whole days from the date
\* to today.
C9_UnparseableIsFresh ==
  out.ended > 331 =>
    \A i \in 1..Len(out.aging.pending_df) :
      LET date == Cell(out.df, out.aging.pending_df[i], "App_Date")
          days == (out.today - date.m) \div TicksPerDay
          b == out.aging.Age_Bucket[i]
      IN IF date = NaT
         THEN out.aging.Age_Days[i] = Zero /\ b = "0-30 Days"
         ELSE /\ days \in 0..30 => b = "0-30 Days"
              /\ days \in 31..60 => b = "31-60 Days"
              /\ days \in 61..90 => b = "61-90 Days"
              /\ days >= 91 => b = "90+ Days"

\* C10 as stated: after a successful load the aggregation of a run raises
\* nothing: no run ends on the KeyError of line 157 or of line 161.
C10_AggregationNeverFails ==
  out.ended \notin {157, 161}

====
